---- MODULE Spec2Model ----
(***************************************************************************)
(* Model of src/main.py: the dhcpd static-lease to Kea hosts-table import. *)
(*                                                                         *)
(* main() runs a linear pipeline:                                          *)
(*   parse_subnet_mappings -> parse_dhcp_leases -> insert_leases_to_db     *)
(* The first two are pure and are operators here, computed the way the     *)
(* Python computes them; insert_leases_to_db is a state machine over the   *)
(* database connection, stepped one loop iteration at a time.              *)
(*                                                                         *)
(* Python strings that the code inspects (rule strings, addresses, MAC     *)
(* tokens) are sequences of one-character strings.  Hostnames and the      *)
(* client class are passed through untouched and stay atomic strings.      *)
(* None is the empty tuple and a present value v is <<v>>.                 *)
(*                                                                         *)
(* The lease file is the sequence of its candidate "host ... { ... }"      *)
(* blocks; the lease pattern decides block by block whether it matches.    *)
(* psycopg2 is the environment: connect, execute and commit each either    *)
(* succeed or raise.  --debug only adds console output and is left out.    *)
(* Addresses are drawn below 128.0.0.0 so that their integer form stays    *)
(* within the model checker's integers.                                    *)
(*                                                                         *)
(* Spec draws lease files of up to MaxBlocks blocks; SpecRules draws up to *)
(* MaxRules --subnet-map strings.  Both run the same program.              *)
(***************************************************************************)
EXTENDS Integers, Sequences, FiniteSets, TLC

\* ------------------------------------------------------------------ bounds
\* Longest list of --subnet-map strings drawn (under SpecRules).
MaxRules == 3
\* Longest list of candidate host blocks in the lease file (under Spec).
MaxBlocks == 3

\* ------------------------------------------------------- program constants
\* The hardware-address token length the lease pattern demands: {17}.
MacTokenLen == 17
\* The --no-ip-client-class default.
NoIpClientClass == "no-ip-reservations"

None == <<>>
Some(v) == <<v>>

\* ------------------------------------------------------------ characters
DecDigits == <<"0", "1", "2", "3", "4", "5", "6", "7", "8", "9">>
HexLower == DecDigits \o <<"a", "b", "c", "d", "e", "f">>
HexUpper == DecDigits \o <<"A", "B", "C", "D", "E", "F">>

Range(s) == {s[k] : k \in 1..Len(s)}
DecChars == Range(DecDigits)
HexChars == Range(HexLower) \cup Range(HexUpper)

IsDecDigit(c) == c \in DecChars
IsHexDigit(c) == c \in HexChars

DecVal(c) == CHOOSE v \in 0..9 : DecDigits[v + 1] = c
HexVal(c) == CHOOSE v \in 0..15 : HexLower[v + 1] = c \/ HexUpper[v + 1] = c

\* str.startswith(prefix)
StartsWith(s, p) == Len(p) <= Len(s) /\ SubSeq(s, 1, Len(p)) = p

\* str.split(sep): the parts between occurrences of sep, empty parts kept.
RECURSIVE SplitFrom(_, _, _, _, _)
SplitFrom(s, sep, k, cur, acc) ==
    IF k > Len(s) THEN Append(acc, cur)
    ELSE IF s[k] = sep THEN SplitFrom(s, sep, k + 1, <<>>, Append(acc, cur))
    ELSE SplitFrom(s, sep, k + 1, Append(cur, s[k]), acc)

Split(s, sep) == SplitFrom(s, sep, 1, <<>>, <<>>)

\* ''.join(parts)
RECURSIVE Join(_)
Join(parts) == IF parts = <<>> THEN <<>> ELSE Head(parts) \o Join(Tail(parts))

\* The value of a string of decimal digits.
RECURSIVE DecNumber(_)
DecNumber(s) ==
    IF s = <<>> THEN 0 ELSE 10 * DecNumber(SubSeq(s, 1, Len(s) - 1)) + DecVal(s[Len(s)])

\* int(s) on the strings drawn here: an optional sign and one or more decimal
\* digits give the number, anything else raises ValueError.
IntParse(s) ==
    LET signed == Len(s) >= 1 /\ s[1] \in {"-", "+"}
        digits == IF signed THEN Tail(s) ELSE s
    IN  IF digits # <<>> /\ \A k \in 1..Len(digits) : IsDecDigit(digits[k])
        THEN [ok |-> TRUE,
              val |-> IF signed /\ s[1] = "-" THEN 0 - DecNumber(digits) ELSE DecNumber(digits)]
        ELSE [ok |-> FALSE, val |-> 0]

\* ---------------------------------------------------------------- ip_to_int
\* socket.inet_aton on the addresses drawn here: four decimal octets give the
\* big-endian 32-bit value, a token that is no address raises OSError.
InetAton(ip) ==
    LET parts == Split(ip, ".")
        good == /\ Len(parts) = 4
                /\ \A k \in 1..4 : /\ parts[k] # <<>>
                                   /\ \A j \in 1..Len(parts[k]) : IsDecDigit(parts[k][j])
                                   /\ DecNumber(parts[k]) <= 255
    IN  IF good
        THEN [ok |-> TRUE,
              val |-> ((DecNumber(parts[1]) * 256 + DecNumber(parts[2])) * 256
                       + DecNumber(parts[3])) * 256 + DecNumber(parts[4])]
        ELSE [ok |-> FALSE, val |-> 0]

ip_to_int(ip) == IF ip # <<>> THEN InetAton(ip) ELSE [ok |-> TRUE, val |-> 0]

\* ------------------------------------------------------------ subnet_lookup
\* The subnet map is a Python dict: a sequence of <<prefix, id>> pairs with
\* distinct prefixes, in insertion order.
RECURSIVE FirstMatch(_, _, _)
FirstMatch(ip, subnet_map, k) ==
    IF k > Len(subnet_map) THEN None
    ELSE IF StartsWith(ip, subnet_map[k][1]) THEN Some(subnet_map[k][2])
    ELSE FirstMatch(ip, subnet_map, k + 1)

\* The first element of the returned pair; the second is always None.
subnet_lookup(ip, subnet_map) ==
    IF ip # <<>> THEN FirstMatch(ip, subnet_map, 1) ELSE None

\* ------------------------------------------------------------- mac_to_bytea
\* str.zfill(2) on a part of hex digits.
zfill2(part) ==
    IF Len(part) >= 2 THEN part
    ELSE IF Len(part) = 1 THEN <<"0">> \o part
    ELSE <<"0", "0">>

\* binascii.unhexlify: raises on an odd length or a non-hex character.
unhexlify(s) ==
    IF Len(s) % 2 = 0 /\ \A k \in 1..Len(s) : IsHexDigit(s[k])
    THEN [ok |-> TRUE,
          bytes |-> [k \in 1..(Len(s) \div 2) |->
                        16 * HexVal(s[2 * k - 1]) + HexVal(s[2 * k])]]
    ELSE [ok |-> FALSE, bytes |-> <<>>]

PaddedParts(mac) == LET parts == Split(mac, ":") IN [k \in 1..Len(parts) |-> zfill2(parts[k])]

mac_to_bytea(mac) == unhexlify(Join(PaddedParts(mac)))

\* ---------------------------------------------------- parse_subnet_mappings
\* subnet_map[key] = value: a new key goes last, a known key keeps its place.
DictSet(d, key, value) ==
    IF \E k \in 1..Len(d) : d[k][1] = key
    THEN [k \in 1..Len(d) |-> IF d[k][1] = key THEN <<key, value>> ELSE d[k]]
    ELSE Append(d, <<key, value>>)

RECURSIVE ParseRulesFrom(_, _, _)
ParseRulesFrom(subnet_strings, k, acc) ==
    IF k > Len(subnet_strings) THEN [raised |-> FALSE, map |-> acc]
    ELSE LET parts == Split(subnet_strings[k], "=")
         IN  IF Len(parts) = 2
             THEN IF IntParse(parts[2]).ok
                  THEN ParseRulesFrom(subnet_strings, k + 1,
                                      DictSet(acc, parts[1], IntParse(parts[2]).val))
                  ELSE [raised |-> TRUE, map |-> acc]
             ELSE ParseRulesFrom(subnet_strings, k + 1, acc)

parse_subnet_mappings(subnet_strings) == ParseRulesFrom(subnet_strings, 1, <<>>)

\* ------------------------------------------------------------------ inputs
\* --subnet-map strings: two overlapping prefixes, a second registration of
\* "10.0" with another id (0), the empty prefix, a non-integer id, no "=".
Rule_10_0_0_is_1 == <<"1", "0", ".", "0", ".", "0", "=", "1">>
Rule_10_0_is_2 == <<"1", "0", ".", "0", "=", "2">>
Rule_10_0_is_0 == <<"1", "0", ".", "0", "=", "0">>
Rule_empty_is_5 == <<"=", "5">>
Rule_10_9_is_x == <<"1", "0", ".", "9", "=", "x">>
Rule_10_9 == <<"1", "0", ".", "9">>

RuleStrings ==
    {Rule_10_0_0_is_1, Rule_10_0_is_2, Rule_10_0_is_0, Rule_empty_is_5,
     Rule_10_9_is_x, Rule_10_9}

\* fixed-address tokens (\S+): two addresses and a token that is no address.
Addr_10_0_0_5 == <<"1", "0", ".", "0", ".", "0", ".", "5">>
Addr_100_64_5_1 == <<"1", "0", "0", ".", "6", "4", ".", "5", ".", "1">>
Addr_bogus == <<"b", "o", "g", "u", "s">>

\* hardware ethernet tokens.
Mac_six_octets == <<"0", "0", ":", "1", "1", ":", "2", "2", ":", "3", "3", ":", "4", "4", ":", "5", "5">>
Mac_six_letters == <<"a", "A", ":", "b", "B", ":", "c", "c", ":", "d", "d", ":", "e", "e", ":", "f", "f">>
Mac_nine_parts == <<"1", ":", "2", ":", "3", ":", "4", ":", "5", ":", "6", ":", "7", ":", "8", ":", "9">>
Mac_odd_part == <<"0", "0", "1", ":", "2", "2", ":", "3", "3", ":", "4", "4", ":", "5", "5", ":", "6">>
Mac_not_hex == <<"z", "z", ":", "z", "z", ":", "z", "z", ":", "z", "z", ":", "z", "z", ":", "z", "z">>

\* A candidate block of the lease file: "host <host> { [fixed-address <fa1>;]
\* hardware ethernet <hw>; [fixed-address <fa2>;] }".  An absent optional
\* line is the empty string, as re.findall gives for an unmatched group.
Block(host, fa1, hw, fa2) == [host |-> host, fa1 |-> fa1, hw |-> hw, fa2 |-> fa2]

Blocks ==
    {Block("alpha", <<>>, Mac_six_octets, Addr_10_0_0_5),
     Block("beta", <<>>, Mac_six_letters, <<>>),
     Block("gamma", Addr_100_64_5_1, Mac_nine_parts, <<>>),
     Block("delta", Addr_10_0_0_5, Mac_odd_part, <<>>),
     Block("epsilon", <<>>, Mac_not_hex, Addr_10_0_0_5),
     Block("zeta", Addr_bogus, Mac_six_octets, <<>>)}

\* --default-subnet-id values drawn: the argparse default and another one.
DefaultSubnetIds == {0, 7}

SeqsUpTo(S, n) == UNION {[1..m -> S] : m \in 0..n}

\* -------------------------------------------------------- parse_dhcp_leases
\* The hardware group of lease_pattern: ([\da-fA-F:]{17}).
IsMacToken(hw) ==
    /\ Len(hw) = MacTokenLen
    /\ \A k \in 1..Len(hw) : IsHexDigit(hw[k]) \/ hw[k] = ":"

\* lease_pattern.findall(content): the blocks the pattern matches, in
\* document order; the others contribute nothing.
FindAll(content) == SelectSeq(content, LAMBDA b : IsMacToken(b.hw))

\* The mutant forgets the fixed-address line that follows the hardware line.
FixedAddressFirstOnly(fa1, fa2) == fa1

\* fixed_address1 or fixed_address2
FixedAddress(fa1, fa2) == IF fa1 # <<>> THEN fa1 ELSE fa2

\* The mutant tests truthiness ("if not dhcp4_subnet_id") instead of None.
ResolveSubnetFalsy(found, default) ==
    IF found = None \/ found = Some(0) THEN Some(default) ELSE found

\* if dhcp4_subnet_id is None: dhcp4_subnet_id = default_subnet_id
ResolveSubnet(found, default) == IF found = None THEN Some(default) ELSE found

\* The lease dict; the seven fields that are the same constant in every lease
\* ('', 0) are left out except dhcp_identifier_type.
MakeLease(match, no_ip_client_class, default_subnet_id, subnet_map) ==
    LET fixed_address == FixedAddress(match.fa1, match.fa2)
    IN  [dhcp_identifier |-> match.hw,
         dhcp_identifier_type |-> 0,
         dhcp4_subnet_id |-> ResolveSubnet(subnet_lookup(fixed_address, subnet_map),
                                           default_subnet_id),
         dhcp6_subnet_id |-> None,
         ipv4_address |-> ip_to_int(fixed_address).val,
         hostname |-> match.host,
         dhcp4_client_classes |->
             IF fixed_address # <<>> THEN None ELSE Some(no_ip_client_class)]

\* The mutant builds the list back to front.
PrependLease(leases, lease) == <<lease>> \o leases

\* leases.append(lease)
AppendLease(leases, lease) == Append(leases, lease)

RECURSIVE LeasesFrom(_, _, _, _, _, _)
LeasesFrom(matches, k, acc, no_ip_client_class, default_subnet_id, subnet_map) ==
    IF k > Len(matches) THEN [raised |-> FALSE, leases |-> acc]
    ELSE IF ~ip_to_int(FixedAddress(matches[k].fa1, matches[k].fa2)).ok
    THEN [raised |-> TRUE, leases |-> <<>>]
    ELSE LeasesFrom(matches, k + 1,
                    AppendLease(acc, MakeLease(matches[k], no_ip_client_class,
                                               default_subnet_id, subnet_map)),
                    no_ip_client_class, default_subnet_id, subnet_map)

parse_dhcp_leases(content, no_ip_client_class, default_subnet_id, subnet_map) ==
    LeasesFrom(FindAll(content), 1, <<>>, no_ip_client_class, default_subnet_id,
               subnet_map)

\* ------------------------------------------------------------------- state
VARIABLES
    subnet_strings,     \* args.subnet_map
    content,            \* the lease file, as its candidate host blocks
    default_subnet_id,  \* args.default_subnet_id
    dry_run,            \* args.dry_run
    pc,                 \* where main() is
    subnet_map,         \* parse_subnet_mappings' result
    leases,             \* parse_dhcp_leases' result, encoded in place by the insert loop
    idx,                \* the insert loop's position in leases
    conn,               \* "none", "open" or "closed"
    reported,           \* the leases printed as "DRY RUN - Would insert:"
    executed,           \* the rows passed to cursor.execute, in call order
    hosts,              \* the rows committed to the hosts table by this run
    commit_called,      \* conn.commit() was called
    rolled_back,        \* conn.rollback() was called
    failure             \* the exception raised, "none" while there is none

vars ==
    <<subnet_strings, content, default_subnet_id, dry_run, pc, subnet_map, leases,
      idx, conn, reported, executed, hosts, commit_called, rolled_back, failure>>

inputs == <<subnet_strings, content, default_subnet_id, dry_run>>
sink == <<conn, reported, executed, hosts, commit_called, rolled_back>>

\* The state as main() starts, for given command-line arguments and file.
Start(rule_lists, files) ==
    /\ subnet_strings \in rule_lists
    /\ content \in files
    /\ default_subnet_id \in DefaultSubnetIds
    /\ dry_run \in BOOLEAN
    /\ pc = "main"
    /\ subnet_map = <<>>
    /\ leases = <<>>
    /\ idx = 1
    /\ conn = "none"
    /\ reported = <<>>
    /\ executed = <<>>
    /\ hosts = <<>>
    /\ commit_called = FALSE
    /\ rolled_back = FALSE
    /\ failure = "none"

\* -------------------------------------------------------------------- main
\* subnet_map = parse_subnet_mappings(...); int() raising ends the program.
ParseSubnetMappings ==
    /\ pc = "main"
    /\ LET r == parse_subnet_mappings(subnet_strings)
       IN  IF r.raised
           THEN /\ pc' = "crashed"
                /\ failure' = "int"
                /\ UNCHANGED subnet_map
           ELSE /\ pc' = "mapped"
                /\ subnet_map' = r.map
                /\ UNCHANGED failure
    /\ UNCHANGED <<inputs, leases, idx, sink>>

\* insert_leases_to_db's first branch: "if dry_run".
InsertEntry(dry) == IF dry THEN "dry_loop" ELSE "connect"

\* leases = parse_dhcp_leases(...), then the call of insert_leases_to_db;
\* inet_aton raising ends the program.
ParseDhcpLeases ==
    /\ pc = "mapped"
    /\ LET r == parse_dhcp_leases(content, NoIpClientClass, default_subnet_id, subnet_map)
       IN  IF r.raised
           THEN /\ pc' = "crashed"
                /\ failure' = "inet_aton"
                /\ UNCHANGED leases
           ELSE /\ pc' = InsertEntry(dry_run)
                /\ leases' = r.leases
                /\ UNCHANGED failure
    /\ UNCHANGED <<inputs, subnet_map, idx, sink>>

\* ------------------------------------------------------ insert_leases_to_db
\* lease['dhcp_identifier'] = mac_to_bytea(lease['dhcp_identifier'])
Encoded(lease) == [lease EXCEPT !.dhcp_identifier = mac_to_bytea(@).bytes]

\* One iteration of the dry-run loop: encode, then print; an encoding error
\* leaves the loop for the except clause.
DryRunLease ==
    /\ pc = "dry_loop"
    /\ idx <= Len(leases)
    /\ IF mac_to_bytea(leases[idx].dhcp_identifier).ok
       THEN /\ leases' = [leases EXCEPT ![idx] = Encoded(@)]
            /\ reported' = Append(reported, leases'[idx])
            /\ idx' = idx + 1
            /\ UNCHANGED <<pc, failure>>
       ELSE /\ pc' = "except"
            /\ failure' = "encoding"
            /\ UNCHANGED <<leases, reported, idx>>
    /\ UNCHANGED <<inputs, subnet_map, conn, executed, hosts, commit_called, rolled_back>>

\* The mutant leaves out the return and falls through to the connect.
DryRunFallThrough ==
    /\ pc = "dry_loop"
    /\ idx > Len(leases)
    /\ pc' = "connect"
    /\ idx' = 1
    /\ UNCHANGED <<inputs, subnet_map, leases, sink, failure>>

\* "return  # Exit the function after dry run output", through finally.
DryRunReturn ==
    /\ pc = "dry_loop"
    /\ idx > Len(leases)
    /\ pc' = "finally"
    /\ UNCHANGED <<inputs, subnet_map, leases, idx, sink, failure>>

\* conn = psycopg2.connect(...); cursor = conn.cursor()
Connect ==
    /\ pc = "connect"
    /\ \/ /\ conn' = "open"
          /\ pc' = "live_loop"
          /\ UNCHANGED failure
       \/ /\ failure' = "connect"
          /\ pc' = "except"
          /\ UNCHANGED conn
    /\ UNCHANGED <<inputs, subnet_map, leases, idx, reported, executed, hosts,
                   commit_called, rolled_back>>

\* The mutant runs the connection in autocommit: each execute is committed.
ExecuteLeaseAutocommit ==
    /\ pc = "live_loop"
    /\ idx <= Len(leases)
    /\ IF mac_to_bytea(leases[idx].dhcp_identifier).ok
       THEN /\ leases' = [leases EXCEPT ![idx] = Encoded(@)]
            /\ executed' = Append(executed, leases'[idx])
            /\ hosts' = Append(hosts, leases'[idx])
            /\ idx' = idx + 1
            /\ UNCHANGED <<pc, failure>>
       ELSE /\ pc' = "except"
            /\ failure' = "encoding"
            /\ UNCHANGED <<leases, executed, hosts, idx>>
    /\ UNCHANGED <<inputs, subnet_map, conn, reported, commit_called, rolled_back>>

\* One iteration of the live loop: encode, then cursor.execute; either may
\* raise and leave the loop for the except clause.
ExecuteLease ==
    /\ pc = "live_loop"
    /\ idx <= Len(leases)
    /\ IF mac_to_bytea(leases[idx].dhcp_identifier).ok
       THEN \/ /\ leases' = [leases EXCEPT ![idx] = Encoded(@)]
               /\ executed' = Append(executed, leases'[idx])
               /\ idx' = idx + 1
               /\ UNCHANGED <<pc, failure>>
            \/ /\ leases' = [leases EXCEPT ![idx] = Encoded(@)]
               /\ pc' = "except"
               /\ failure' = "execute"
               /\ UNCHANGED <<executed, idx>>
       ELSE /\ pc' = "except"
            /\ failure' = "encoding"
            /\ UNCHANGED <<leases, executed, idx>>
    /\ UNCHANGED <<inputs, subnet_map, conn, reported, hosts, commit_called, rolled_back>>

\* conn.commit() after the loop: the executed rows become rows of hosts, or
\* the commit raises and none does.
Commit ==
    /\ pc = "live_loop"
    /\ idx > Len(leases)
    /\ commit_called' = TRUE
    /\ \/ /\ hosts' = hosts \o executed
          /\ pc' = "finally"
          /\ UNCHANGED failure
       \/ /\ failure' = "commit"
          /\ pc' = "except"
          /\ UNCHANGED hosts
    /\ UNCHANGED <<inputs, subnet_map, leases, idx, conn, reported, executed, rolled_back>>

\* except Exception: print, and "if conn: conn.rollback()".
ExceptHandler ==
    /\ pc = "except"
    /\ rolled_back' = (rolled_back \/ conn = "open")
    /\ pc' = "finally"
    /\ UNCHANGED <<inputs, subnet_map, leases, idx, conn, reported, executed, hosts,
                   commit_called, failure>>

\* finally: close the cursor and the connection if there are any.
Finally ==
    /\ pc = "finally"
    /\ conn' = IF conn = "open" THEN "closed" ELSE conn
    /\ pc' = "returned"
    /\ UNCHANGED <<inputs, subnet_map, leases, idx, reported, executed, hosts,
                   commit_called, rolled_back, failure>>

Next ==
    \/ ParseSubnetMappings
    \/ ParseDhcpLeases
    \/ DryRunLease
    \/ DryRunReturn
    \/ Connect
    \/ ExecuteLease
    \/ Commit
    \/ ExceptHandler
    \/ Finally

\* Lease files of up to MaxBlocks blocks, with at most one --subnet-map.
Init == Start(SeqsUpTo(RuleStrings, 1), SeqsUpTo(Blocks, MaxBlocks))

Spec == Init /\ [][Next]_vars

\* Up to MaxRules --subnet-map strings, with lease files of at most one block.
InitRules == Start(SeqsUpTo(RuleStrings, MaxRules), SeqsUpTo(Blocks, 1))

SpecRules == InitRules /\ [][Next]_vars

\* ------------------------------------------------------------------ claims
\* What the claims speak of, stated on the inputs and the sinks.

\* The blocks the lease pattern matched, in document order.
Matched == FindAll(content)

\* parse_dhcp_leases has returned its list.
LeasesBuilt == pc \notin {"main", "mapped", "crashed"}

HasFixedAddressLine(b) == b.fa1 # <<>> \/ b.fa2 # <<>>
BlockAddress(b) == IF b.fa1 # <<>> THEN b.fa1 ELSE b.fa2

HostnamesOf(rows) == [k \in 1..Len(rows) |-> rows[k].hostname]
BlockHosts(blocks) == [k \in 1..Len(blocks) |-> blocks[k].host]

\* The records handed on by insert_leases_to_db: printed, or executed.
SinkLog == IF dry_run THEN reported ELSE executed

\* A rule string of the form prefix=integer.
WellFormedRule(s) ==
    LET parts == Split(s, "=") IN Len(parts) = 2 /\ IntParse(parts[2]).ok
RulePrefix(s) == Split(s, "=")[1]
RuleId(s) == IntParse(Split(s, "=")[2]).val

\* The id of the first supplied rule whose prefix is a prefix of the address.
RECURSIVE FirstSuppliedMatch(_, _, _)
FirstSuppliedMatch(address, strings, k) ==
    IF k > Len(strings) THEN None
    ELSE IF StartsWith(address, RulePrefix(strings[k])) THEN Some(RuleId(strings[k]))
    ELSE FirstSuppliedMatch(address, strings, k + 1)

\* C1: when mac_to_bytea fails for one record only that record is rejected:
\* once insert_leases_to_db has returned without a database failure, the
\* records committed (live) or reported (dry run) are exactly the matched
\* blocks whose hardware address encodes, in order.
C1_OnlyFailingRecordRejected ==
    (pc = "returned" /\ failure \in {"none", "encoding"}) =>
        HostnamesOf(IF dry_run THEN reported ELSE hosts)
            = BlockHosts(SelectSeq(Matched, LAMBDA b : mac_to_bytea(b.hw).ok))

\* C2: no record with an identifier of a length other than 6 bytes is ever
\* reported by the dry run or handed to the storage sink.
C2_IdentifierIsSixBytes ==
    /\ \A k \in 1..Len(reported) : Len(reported[k].dhcp_identifier) = 6
    /\ \A k \in 1..Len(executed) : Len(executed[k].dhcp_identifier) = 6
    /\ \A k \in 1..Len(hosts) : Len(hosts[k].dhcp_identifier) = 6

\* C3: for well-formed rule strings, the same prefix possibly registered more
\* than once, subnet_lookup over the table parse_subnet_mappings built returns
\* the id of the first rule, in the order supplied, whose prefix is a prefix
\* of the address, and no match when there is none.
C3_FirstRegisteredWins ==
    (pc \in {"mapped", "returned"}
     /\ \A k \in 1..Len(subnet_strings) : WellFormedRule(subnet_strings[k])) =>
        \A address \in {Addr_10_0_0_5, Addr_100_64_5_1} :
            subnet_lookup(address, subnet_map)
                = FirstSuppliedMatch(address, subnet_strings, 1)

\* C4: every record of parse_dhcp_leases has a dhcp4_subnet_id that is not
\* null: the id subnet_lookup returns for the block's fixed address when a
\* rule matches (0 included), and default_subnet_id when none matches or the
\* block has no fixed address.
C4_SubnetIdResolved ==
    LeasesBuilt =>
        /\ Len(leases) = Len(Matched)
        /\ \A k \in 1..Len(leases) :
            LET found == IF HasFixedAddressLine(Matched[k])
                         THEN subnet_lookup(BlockAddress(Matched[k]), subnet_map)
                         ELSE None
            IN  /\ leases[k].dhcp4_subnet_id # None
                /\ found # None => leases[k].dhcp4_subnet_id = found
                /\ found = None => leases[k].dhcp4_subnet_id = Some(default_subnet_id)

\* A record whose address matched a rule of id 0 kept 0, the default being 7.
C4_Witness ==
    /\ LeasesBuilt
    /\ default_subnet_id = 7
    /\ \E k \in 1..Len(leases) :
        /\ HasFixedAddressLine(Matched[k])
        /\ subnet_lookup(BlockAddress(Matched[k]), subnet_map) = Some(0)
        /\ leases[k].dhcp4_subnet_id = Some(0)

\* C5: a record has dhcp4_client_classes equal to the no-IP client class if
\* and only if its block has no fixed-address line, before or after the
\* hardware line; then ipv4_address is 0 and dhcp4_subnet_id is
\* default_subnet_id; otherwise dhcp4_client_classes is null.
C5_NoIpClassIffNoAddress ==
    LeasesBuilt =>
        /\ Len(leases) = Len(Matched)
        /\ \A k \in 1..Len(leases) :
            /\ leases[k].dhcp4_client_classes = Some(NoIpClientClass)
                   <=> ~HasFixedAddressLine(Matched[k])
            /\ ~HasFixedAddressLine(Matched[k]) =>
                   /\ leases[k].ipv4_address = 0
                   /\ leases[k].dhcp4_subnet_id = Some(default_subnet_id)
            /\ HasFixedAddressLine(Matched[k]) => leases[k].dhcp4_client_classes = None

\* An address-less record got the class and the default 7 while the table
\* holds the empty prefix, which is a prefix of every string.
C5_Witness ==
    /\ LeasesBuilt
    /\ default_subnet_id = 7
    /\ \E j \in 1..Len(subnet_map) : subnet_map[j][1] = <<>>
    /\ \E k \in 1..Len(leases) :
        /\ ~HasFixedAddressLine(Matched[k])
        /\ leases[k].dhcp4_client_classes = Some(NoIpClientClass)
        /\ leases[k].dhcp4_subnet_id = Some(7)

\* C6: a dry run reports every record of the lease list, those whose MAC
\* encoding fails and those that follow them included.
C6_DryRunReportsEveryRecord ==
    (dry_run /\ pc = "returned") => HostnamesOf(reported) = HostnamesOf(leases)

\* C7: each matched block yields exactly one record, the lease list is in
\* document order, and the k-th record handed to the sink (executed in a live
\* run, reported in a dry run) is the k-th matched block, encoded.
C7_OrderPreserved ==
    /\ LeasesBuilt => HostnamesOf(leases) = BlockHosts(Matched)
    /\ Len(SinkLog) <= Len(Matched)
    /\ \A k \in 1..Len(SinkLog) :
        /\ SinkLog[k].hostname = Matched[k].host
        /\ SinkLog[k].dhcp_identifier = mac_to_bytea(Matched[k].hw).bytes

\* A live run executed two records of different hosts, in a file in which
\* some block did not match.
C7_Witness ==
    /\ ~dry_run
    /\ Len(Matched) < Len(content)
    /\ Len(executed) >= 2
    /\ executed[1].hostname # executed[2].hostname

\* C8: a rule string that does not split into two parts and one whose second
\* part is no integer are both skipped: parse_subnet_mappings returns, and
\* every well-formed rule supplied is registered in the table.
C8_MalformedRulesSkipped ==
    pc # "main" =>
        /\ failure # "int"
        /\ \A k \in 1..Len(subnet_strings) :
            WellFormedRule(subnet_strings[k]) =>
                \E j \in 1..Len(subnet_map) : subnet_map[j][1] = RulePrefix(subnet_strings[k])

\* C9: a dry run never opens a connection and never executes, commits or
\* rolls back: the store is as it was, on every path.
C9_DryRunTouchesNothing ==
    dry_run =>
        /\ conn = "none"
        /\ pc \notin {"connect", "live_loop"}
        /\ executed = <<>>
        /\ hosts = <<>>
        /\ ~commit_called
        /\ ~rolled_back

\* A dry run returned after an encoding error part-way through the list.
C9_Witness ==
    /\ dry_run
    /\ pc = "returned"
    /\ failure = "encoding"
    /\ Len(reported) >= 1

\* C10: a live run commits one row for every lease, after a single commit, or
\* no row at all: after the first encoding or execute failure no further
\* record is executed, commit is not called and the transaction is rolled back.
C10_AllOrNothing ==
    ~dry_run =>
        /\ \/ hosts = <<>>
           \/ /\ commit_called
              /\ failure = "none"
              /\ Len(hosts) = Len(leases)
              /\ \A k \in 1..Len(hosts) : hosts[k] = leases[k]
        /\ failure \in {"encoding", "execute"} =>
              /\ ~commit_called
              /\ idx <= Len(leases)
              /\ Len(executed) = idx - 1
        /\ (pc = "returned" /\ failure \in {"encoding", "execute", "commit"}) =>
              /\ rolled_back
              /\ hosts = <<>>
        /\ (pc = "returned" /\ failure = "none") => Len(hosts) = Len(leases)

\* A live run returned after an encoding error that followed an execute.
C10_Witness ==
    /\ ~dry_run
    /\ pc = "returned"
    /\ failure = "encoding"
    /\ Len(executed) >= 1
    /\ Len(executed) < Len(leases)
    /\ rolled_back
    /\ hosts = <<>>

====
